---- MODULE Spec2Model ----
(***************************************************************************)
(* Model of swarmhost-core: the cryptographic identity (crypto/mod.rs),    *)
(* the node configuration (node/config.rs) and the node session guard      *)
(* (node/mod.rs).                                                          *)
(*                                                                         *)
(* Three specifications share the module's variables:                      *)
(*   Spec        callers of one SwarmhostNode, interleaved under the lock  *)
(*   ConfigSpec  building a NodeConfig, validate(), SwarmhostNode::new     *)
(*   CryptoSpec  KeyPair::generate / sign / verify                         *)
(***************************************************************************)
EXTENDS Integers, Sequences, FiniteSets, TLC

VARIABLES
    \* ---- node/mod.rs: one SwarmhostNode and its callers
    nodeState,   \* NodeState behind the RwLock
    lockWriter,  \* the task holding the write guard, 0 when none
    lockReaders, \* the tasks holding a read guard
    waitq,       \* tasks queued on the lock, in arrival order
    pc,          \* each caller's position in its current call
    call,        \* each caller's current operation and arguments
    seen,        \* the running flag each caller found when it got its guard
    ret,         \* the value each caller's operation returned
    hist,        \* the completed start()/stop() calls, in lock order
    \* ---- node/config.rs
    config,      \* the NodeConfig being built
    validated,   \* the last validate() call: its configuration and result
    created,     \* the last SwarmhostNode::new call: its configuration and result
    serialized,  \* the serialized form of the configuration, and what it was made from
    \* ---- crypto/mod.rs
    keypair,     \* the KeyPair in use
    signature,   \* the signature bytes in hand
    origin,      \* who produced `signature`, over which message
    verified,    \* the last verify() call: its message and result
    checked,     \* the last verify_signature() call: its public key, message, result
    pieces,      \* the byte pieces about to be hashed, in order
    multi,       \* the last hash_multiple() call: its pieces and digest
    single       \* the last hash() call: its data and digest

nodeVars   == <<nodeState, lockWriter, lockReaders, waitq, pc, call, seen, ret, hist>>
configVars == <<config, validated, created, serialized>>
hashVars   == <<pieces, multi, single>>
cryptoVars == <<keypair, signature, origin, verified, checked, hashVars>>
vars       == <<nodeVars, configVars, cryptoVars>>

-----------------------------------------------------------------------------
(* Bounds *)

NumKeys   == 3   \* distinct private keys rand::random() may draw
MaxMsgLen == 2   \* messages are bit strings of at most this length
NumTasks  == 2   \* concurrent callers of one SwarmhostNode
MaxHist   == 3   \* start()/stop() calls completed in one run
MaxQuorum == 3   \* quorum numerator and denominator range over 0..MaxQuorum
MaxPieces == 3   \* hash_multiple is given at most this many pieces

-----------------------------------------------------------------------------
(* error.rs *)

\* Option<T>
None    == [tag |-> "None"]
Some(v) == [tag |-> "Some", value |-> v]

\* Result<(), E>::Ok(())
Ok == [tag |-> "Ok"]

\* SwarmhostError::{Crypto, Node, Config}(msg)
SwarmhostError(variant, msg) == [tag |-> "Err", variant |-> variant, msg |-> msg]

IsOk(r)  == r.tag = "Ok"
IsErr(r) == r.tag = "Err"

-----------------------------------------------------------------------------
(* crypto/mod.rs.  ed25519 is modelled as the Schnorr signature it is, in   *)
(* the additive group of integers modulo a prime GroupOrder with base      *)
(* point 1: a private key is a nonzero scalar s, its public key is s*B,    *)
(* a signature over m is the pair (R, S) with R = r*B and S = r + h(m)*s,  *)
(* and it verifies under A when S*B = R + h(m)*A.  The digest h is taken   *)
(* collision-free on the bounded message set.                              *)

Bit      == {0, 1}
Messages == UNION {[1..n -> Bit] : n \in 0..MaxMsgLen}

RECURSIVE Digest(_)
\* the message read as a binary numeral behind a leading 1: injective, nonzero
Digest(m) ==
    IF m = <<>> THEN 1
    ELSE 2 * Digest(SubSeq(m, 1, Len(m) - 1)) + m[Len(m)]

DigestBound == 2 * Digest([i \in 1..MaxMsgLen |-> 1])

IsPrime(p) == p > 1 /\ \A d \in 2..(p - 1) : p % d # 0

\* the least prime above every digest and every private scalar
GroupOrder ==
    CHOOSE p \in (DigestBound + NumKeys)..(2 * (DigestBound + NumKeys)) :
        /\ IsPrime(p)
        /\ \A r \in (DigestBound + NumKeys)..(p - 1) : ~IsPrime(r)

SecretKeys == 1..NumKeys

\* SigningKey::verifying_key: the public key is derived from the private key
VerifyingKey(secret) == (secret * 1) % GroupOrder

\* KeyPair { signing_key, verifying_key }, as generate() and from_bytes() build it
KeyPair(secret) == [signing_key |-> secret, verifying_key |-> VerifyingKey(secret)]

KeyPairs == {KeyPair(s) : s \in SecretKeys}

\* KeyPair::public_key
public_key(kp) == kp.verifying_key

\* KeyPair::private_key
private_key(kp) == kp.signing_key

PlayerIds == {public_key(kp) : kp \in KeyPairs}

\* the deterministic nonce of an ed25519 signature
Nonce(secret, m) == (secret + Digest(m)) % GroupOrder

\* SigningKey::sign(message).to_bytes(): the encoding R || S
SigningKey_sign(secret, m) ==
    LET r == Nonce(secret, m)
    IN  <<r % GroupOrder, (r + Digest(m) * secret) % GroupOrder>>

\* KeyPair::sign
sign(kp, message) == SigningKey_sign(kp.signing_key, message)

\* Signature::from_slice: the bytes must have the length of R || S
Signature_from_slice(bytes) ==
    IF Len(bytes) = 2 THEN [tag |-> "Ok", R |-> bytes[1], S |-> bytes[2]]
    ELSE [tag |-> "Err"]

\* VerifyingKey::verify: S*B = R + h(m)*A
VerifyingKey_verify(A, m, sig) ==
    (sig.S * 1) % GroupOrder = (sig.R + Digest(m) * A) % GroupOrder

\* a verify that maps the mismatch away: `.verify(message, &sig).ok(); Ok(())`
verify_ignoring_mismatch(kp, message, bytes) ==
    IF Signature_from_slice(bytes).tag = "Err"
        THEN SwarmhostError("Crypto", "Invalid signature")
    ELSE Ok

\* KeyPair::verify
verify(kp, message, bytes) ==
    LET sig == Signature_from_slice(bytes)
    IN  IF sig.tag = "Err" THEN SwarmhostError("Crypto", "Invalid signature")
        ELSE IF VerifyingKey_verify(kp.verifying_key, message, sig) THEN Ok
        ELSE SwarmhostError("Crypto", "Verification failed")

-----------------------------------------------------------------------------
(* Blake2s256 is modelled as a hasher that absorbs its input byte by byte  *)
(* into one number, the bytes read as a binary numeral behind a leading 1, *)
(* so that the digest is collision-free on the bounded inputs.             *)

Blake2s256_new == 1

RECURSIVE Blake2s256_update(_, _)
Blake2s256_update(hasher, data) ==
    IF data = <<>> THEN hasher
    ELSE Blake2s256_update(2 * hasher + Head(data), Tail(data))

Blake2s256_finalize(hasher) == hasher

\* hash
hash(data) ==
    Blake2s256_finalize(Blake2s256_update(Blake2s256_new, data))

RECURSIVE UpdateEach(_, _)
\* for piece in data_pieces { hasher.update(piece) }
UpdateEach(hasher, data_pieces) ==
    IF data_pieces = <<>> THEN hasher
    ELSE UpdateEach(Blake2s256_update(hasher, Head(data_pieces)), Tail(data_pieces))

RECURSIVE SumOfDigests(_)
SumOfDigests(data_pieces) ==
    IF data_pieces = <<>> THEN 0
    ELSE hash(Head(data_pieces)) + SumOfDigests(Tail(data_pieces))

\* a hash_multiple that starts a new hasher for every piece
hash_multiple_fresh_hasher(data_pieces) ==
    IF data_pieces = <<>> THEN hash(<<>>)
    ELSE hash(data_pieces[Len(data_pieces)])

\* a hash_multiple that adds up the digests of the pieces
hash_multiple_order_blind(data_pieces) ==
    IF Len(data_pieces) = 1 THEN hash(data_pieces[1])
    ELSE hash(<<>>) + SumOfDigests(data_pieces)

\* hash_multiple
hash_multiple(data_pieces) ==
    Blake2s256_finalize(UpdateEach(Blake2s256_new, data_pieces))

\* the inputs of hash_multiple: sequences of byte strings, empty ones included
PieceSeqs == UNION {[1..n -> Messages] : n \in 0..MaxPieces}

RECURSIVE Concat(_)
\* the pieces written one after another into one buffer
Concat(data_pieces) ==
    IF data_pieces = <<>> THEN <<>>
    ELSE Head(data_pieces) \o Concat(Tail(data_pieces))

\* VerifyingKey::from_bytes: the bytes must encode an element of the group
VerifyingKey_from_bytes(bytes) ==
    IF bytes \in 0..(GroupOrder - 1) THEN [tag |-> "Ok", A |-> bytes]
    ELSE [tag |-> "Err"]

\* a verify_signature that decodes the signature before the public key
verify_signature_signature_first(pk, message, bytes) ==
    LET key == VerifyingKey_from_bytes(pk)
        sig == Signature_from_slice(bytes)
    IN  IF sig.tag = "Err" THEN SwarmhostError("Crypto", "Invalid signature")
        ELSE IF key.tag = "Err" THEN SwarmhostError("Crypto", "Invalid public key")
        ELSE IF VerifyingKey_verify(key.A, message, sig) THEN Ok
        ELSE SwarmhostError("Crypto", "Verification failed")

\* verify_signature
verify_signature(pk, message, bytes) ==
    LET key == VerifyingKey_from_bytes(pk)
        sig == Signature_from_slice(bytes)
    IN  IF key.tag = "Err" THEN SwarmhostError("Crypto", "Invalid public key")
        ELSE IF sig.tag = "Err" THEN SwarmhostError("Crypto", "Invalid signature")
        ELSE IF VerifyingKey_verify(key.A, message, sig) THEN Ok
        ELSE SwarmhostError("Crypto", "Verification failed")

\* public key bytes a caller may hand to verify_signature: the players' keys, the
\* neutral element, and two strings that encode no group element
PublicKeyBytes == PlayerIds \cup {0, GroupOrder, GroupOrder + 1}

\* signature bytes arriving from outside: any short string of group elements
ForeignBytes == UNION {[1..n -> {0, 1, GroupOrder - 1}] : n \in {1, 2, 3}}

-----------------------------------------------------------------------------
(* node/config.rs.  Durations are in whole seconds. *)

\* defaults with the quorum fraction written upside down
ConsensusConfig_default_inverted ==
    [quorum_numerator |-> 3, quorum_denominator |-> 2, optimistic_execution |-> TRUE,
     consensus_timeout |-> 5, max_concurrent_validations |-> 100]

\* impl Default for ConsensusConfig
ConsensusConfig_default ==
    [quorum_numerator |-> 2, quorum_denominator |-> 3, optimistic_execution |-> TRUE,
     consensus_timeout |-> 5, max_concurrent_validations |-> 100]

\* impl Default for NetworkConfig
NetworkConfig_default ==
    [max_peers |-> 50, heartbeat_interval |-> 10, peer_timeout |-> 30,
     max_message_size |-> 1024 * 1024, enable_compression |-> TRUE]

\* impl Default for StateConfig
StateConfig_default ==
    [snapshot_interval |-> 100, max_snapshots_in_memory |-> 10,
     max_action_log_size |-> 1000]

\* #[derive(Default)] for NodeConfig: Option fields are None, the port is 0
NodeConfig_default ==
    [keypair |-> None, bootstrap_server |-> None, listen_port |-> 0,
     consensus |-> ConsensusConfig_default, network |-> NetworkConfig_default,
     state |-> StateConfig_default]

\* NodeConfig::new, with the keypair KeyPair::generate() drew
NodeConfig_new(kp) == [NodeConfig_default EXCEPT !.keypair = Some(kp)]

\* NodeConfig::with_keypair
with_keypair(kp) == [NodeConfig_default EXCEPT !.keypair = Some(kp)]

\* NodeConfig::player_id
player_id(cfg) ==
    IF cfg.keypair = None THEN None ELSE Some(public_key(cfg.keypair.value))

\* NodeConfig::with_bootstrap
with_bootstrap(cfg, server) == [cfg EXCEPT !.bootstrap_server = Some(server)]

\* NodeConfig::with_port
with_port(cfg, port) == [cfg EXCEPT !.listen_port = port]

\* NodeConfig::with_optimistic_execution
with_optimistic_execution(cfg, enabled) ==
    [cfg EXCEPT !.consensus.optimistic_execution = enabled]

\* a validate whose quorum comparison is off by one: `>=` for `>`
validate_strict_quorum(cfg) ==
    IF cfg.keypair = None
        THEN [tag |-> "Err", msg |-> "Keypair must be set"]
    ELSE IF cfg.consensus.quorum_numerator = 0 \/ cfg.consensus.quorum_denominator = 0
        THEN [tag |-> "Err", msg |-> "Quorum fraction cannot have zero denominator/numerator"]
    ELSE IF cfg.consensus.quorum_numerator >= cfg.consensus.quorum_denominator
        THEN [tag |-> "Err", msg |-> "Quorum numerator cannot exceed denominator"]
    ELSE IF cfg.network.max_message_size = 0
        THEN [tag |-> "Err", msg |-> "Max message size must be > 0"]
    ELSE Ok

\* NodeConfig::validate, a Result<(), String>
validate(cfg) ==
    IF cfg.keypair = None
        THEN [tag |-> "Err", msg |-> "Keypair must be set"]
    ELSE IF cfg.consensus.quorum_numerator = 0 \/ cfg.consensus.quorum_denominator = 0
        THEN [tag |-> "Err", msg |-> "Quorum fraction cannot have zero denominator/numerator"]
    ELSE IF cfg.consensus.quorum_numerator > cfg.consensus.quorum_denominator
        THEN [tag |-> "Err", msg |-> "Quorum numerator cannot exceed denominator"]
    ELSE IF cfg.network.max_message_size = 0
        THEN [tag |-> "Err", msg |-> "Max message size must be > 0"]
    ELSE Ok

-----------------------------------------------------------------------------
(* node/mod.rs: construction *)

\* struct NodeState
NodeState(id, running, peers) ==
    [player_id |-> id, is_running |-> running, connected_peers |-> peers]

\* a constructor that skips validate() and only looks for the keypair
SwarmhostNode_new_unvalidated(cfg) ==
    IF player_id(cfg) = None THEN SwarmhostError("Config", "No keypair set")
    ELSE [tag |-> "Ok",
          node |-> [config |-> cfg,
                    state |-> NodeState(player_id(cfg).value, FALSE, <<>>)]]

\* a constructor that lists the node itself among its peers
SwarmhostNode_new_own_peer(cfg) ==
    LET v == validate(cfg)
    IN  IF v.tag = "Err" THEN SwarmhostError("Config", v.msg)
        ELSE IF player_id(cfg) = None THEN SwarmhostError("Config", "No keypair set")
        ELSE [tag |-> "Ok",
              node |-> [config |-> cfg,
                        state |-> NodeState(player_id(cfg).value, FALSE,
                                            <<player_id(cfg).value>>)]]

\* SwarmhostNode::new
SwarmhostNode_new(cfg) ==
    LET v == validate(cfg)
    IN  IF v.tag = "Err" THEN SwarmhostError("Config", v.msg)
        ELSE IF player_id(cfg) = None THEN SwarmhostError("Config", "No keypair set")
        ELSE [tag |-> "Ok",
              node |-> [config |-> cfg,
                        state |-> NodeState(player_id(cfg).value, FALSE, <<>>)]]

-----------------------------------------------------------------------------
(* ConfigSpec: a caller builds a configuration with the constructors, the  *)
(* builder methods and assignments to the public fields, then validates it *)
(* or constructs a node from it.                                           *)

Ports         == {0, 9000}
Servers       == {"localhost:8080"}
MessageSizes  == {0, 1, 1024 * 1024}
QuorumValues  == 0..MaxQuorum

\* serde_duration::serialize: duration.as_secs(), of a whole number of seconds
serde_duration_serialize(duration) == duration

\* serde_duration::deserialize: Duration::from_secs(secs)
serde_duration_deserialize(secs) == secs

\* a Serialize for NodeConfig without #[serde(skip)] on the keypair
serialize_with_keypair(cfg) ==
    [keypair |-> IF cfg.keypair = None THEN None
                 ELSE Some(private_key(cfg.keypair.value)),
     bootstrap_server |-> cfg.bootstrap_server,
     listen_port |-> cfg.listen_port,
     consensus |-> [cfg.consensus EXCEPT
        !.consensus_timeout = serde_duration_serialize(@)],
     network |-> [cfg.network EXCEPT
        !.heartbeat_interval = serde_duration_serialize(@),
        !.peer_timeout = serde_duration_serialize(@)],
     state |-> cfg.state]

\* #[derive(Serialize)] for NodeConfig: every field but the skipped keypair
serialize(cfg) ==
    [bootstrap_server |-> cfg.bootstrap_server,
     listen_port |-> cfg.listen_port,
     consensus |-> [cfg.consensus EXCEPT
        !.consensus_timeout = serde_duration_serialize(@)],
     network |-> [cfg.network EXCEPT
        !.heartbeat_interval = serde_duration_serialize(@),
        !.peer_timeout = serde_duration_serialize(@)],
     state |-> cfg.state]

\* #[derive(Deserialize)] for NodeConfig: the skipped keypair is Option::default()
deserialize(form) ==
    [keypair |-> None,
     bootstrap_server |-> form.bootstrap_server,
     listen_port |-> form.listen_port,
     consensus |-> [form.consensus EXCEPT
        !.consensus_timeout = serde_duration_deserialize(@)],
     network |-> [form.network EXCEPT
        !.heartbeat_interval = serde_duration_deserialize(@),
        !.peer_timeout = serde_duration_deserialize(@)],
     state |-> form.state]

\* a changed configuration has been neither validated nor used, and the
\* serialized form is kept only while it is the form of the configuration
Rebuilt(cfg) ==
    /\ config' = cfg
    /\ validated' = None
    /\ created' = None
    /\ serialized' = IF serialized # None /\ serialized.value.form = serialize(cfg)
                     THEN serialized ELSE None
    /\ UNCHANGED <<nodeVars, cryptoVars>>

CfgDefault == Rebuilt(NodeConfig_default)

CfgNew == \E kp \in KeyPairs : Rebuilt(NodeConfig_new(kp))

CfgWithKeypair == \E kp \in KeyPairs : Rebuilt(with_keypair(kp))

CfgWithBootstrap == \E s \in Servers : Rebuilt(with_bootstrap(config, s))

CfgWithPort == \E p \in Ports : Rebuilt(with_port(config, p))

CfgWithOptimisticExecution ==
    \E b \in BOOLEAN : Rebuilt(with_optimistic_execution(config, b))

\* config.keypair = None / Some(kp)            (config.rs:233, 237)
CfgSetKeypair ==
    \E kp \in {Some(k) : k \in KeyPairs} \cup {None} :
        Rebuilt([config EXCEPT !.keypair = kp])

\* config.consensus.quorum_numerator = n       (config.rs:238)
CfgSetQuorumNumerator ==
    \E n \in QuorumValues : Rebuilt([config EXCEPT !.consensus.quorum_numerator = n])

CfgSetQuorumDenominator ==
    \E n \in QuorumValues : Rebuilt([config EXCEPT !.consensus.quorum_denominator = n])

CfgSetMaxMessageSize ==
    \E n \in MessageSizes : Rebuilt([config EXCEPT !.network.max_message_size = n])

CfgValidate ==
    /\ validated' = validate(config)
    /\ UNCHANGED <<config, created, serialized, nodeVars, cryptoVars>>

CfgCreateNode ==
    /\ created' = SwarmhostNode_new(config)
    /\ UNCHANGED <<config, validated, serialized, nodeVars, cryptoVars>>

CfgSerialize ==
    /\ serialized' = Some([form |-> serialize(config), source |-> config])
    /\ UNCHANGED <<config, validated, created, nodeVars, cryptoVars>>

\* the configuration is replaced by the one restored from the serialized form
CfgDeserialize ==
    /\ serialized # None
    /\ Rebuilt(deserialize(serialized.value.form))

ConfigNext ==
    \/ CfgDefault
    \/ CfgNew
    \/ CfgWithKeypair
    \/ CfgWithBootstrap
    \/ CfgWithPort
    \/ CfgWithOptimisticExecution
    \/ CfgSetKeypair
    \/ CfgSetQuorumNumerator
    \/ CfgSetQuorumDenominator
    \/ CfgSetMaxMessageSize
    \/ CfgValidate
    \/ CfgCreateNode
    \/ CfgSerialize
    \/ CfgDeserialize

-----------------------------------------------------------------------------
(* node/mod.rs: the operations, as they act on the NodeState they lock *)

\* a start() that does not look at the flag
start_never_rejects(st) == FALSE

\* start(): `if state.is_running { return Err(..) }`
start_rejects(st) == st.is_running

\* start(): `state.is_running = true`
start_update(st) == [st EXCEPT !.is_running = TRUE]

\* stop(): `if !state.is_running { return Ok(()) }`
stop_returns_early(st) == ~st.is_running

\* a stop() that puts the whole NodeState back to its default
stop_update_resetting(st) == NodeState(0, FALSE, <<>>)

\* a stop() that clears the peer list and forgets the flag
stop_update_keeping_flag(st) == [st EXCEPT !.connected_peers = <<>>]

\* stop(): `state.is_running = false; state.connected_peers.clear()`
stop_update(st) == [st EXCEPT !.is_running = FALSE, !.connected_peers = <<>>]

\* SwarmhostNode::stop, from the write guard to the return
stop(st) ==
    IF stop_returns_early(st) THEN [state |-> st, ret |-> Ok]
    ELSE [state |-> stop_update(st), ret |-> Ok]

\* SwarmhostNode::start, from the write guard to the return
start(st) ==
    IF start_rejects(st)
        THEN [state |-> st, ret |-> SwarmhostError("Node", "Node already running")]
    ELSE [state |-> start_update(st), ret |-> Ok]

\* SwarmhostNode::is_running
is_running(st) == st.is_running

\* SwarmhostNode::peer_count
peer_count(st) == Len(st.connected_peers)

\* SwarmhostNode::player_id
SwarmhostNode_player_id(st) == st.player_id

\* a join_game without the running check
join_game_unguarded(st, game_id) == Ok

\* SwarmhostNode::join_game
join_game(st, game_id) ==
    IF ~st.is_running THEN SwarmhostError("Node", "Node not running") ELSE Ok

\* SwarmhostNode::submit_action
submit_action(st, action_type, action_data) ==
    IF ~st.is_running THEN SwarmhostError("Node", "Node not running") ELSE Ok

-----------------------------------------------------------------------------
(* tokio::sync::RwLock<NodeState>: any number of read guards or one write  *)
(* guard; tasks that have to wait are served in arrival order.             *)

Tasks == 1..NumTasks

\* a read guard handed out while the write guard is held
CanRead_beside_writer == TRUE

\* a read guard can be handed out
CanRead == lockWriter = 0

\* a write guard handed out while another write guard is held
CanWrite_beside_writer == lockReaders = {}

\* the write guard can be handed out
CanWrite == lockWriter = 0 /\ lockReaders = {}

\* dropping the guard at the end of the operation
Release(t) ==
    /\ lockWriter' = IF lockWriter = t THEN 0 ELSE lockWriter
    /\ lockReaders' = lockReaders \ {t}

-----------------------------------------------------------------------------
(* Spec: the callers of one SwarmhostNode *)

GameIds     == {"test_game"}
ActionTypes == {1}
ActionData  == {<<116, 101, 115, 116>>}

WriterOps == {"start", "stop"}
ReaderOps == {"is_running", "peer_count", "player_id", "join_game", "submit_action"}

NoCall == [op |-> "none"]

Calls ==
    {[op |-> o] : o \in {"start", "stop", "is_running", "peer_count", "player_id"}}
    \cup {[op |-> "join_game", game_id |-> g] : g \in GameIds}
    \cup {[op |-> "submit_action", action_type |-> a, action_data |-> d] :
            a \in ActionTypes, d \in ActionData}

\* start()/stop() calls begun and not yet recorded in hist
PendingWriters == {t \in Tasks : pc[t] # "idle" /\ pc[t] # "done" /\ call[t].op \in WriterOps}

\* a completed start()/stop(): what it returned and whether it changed the flag
WriterEvent(o, r, changed) == [op |-> o, ret |-> r, changed |-> changed]

\* what a caller finds on getting its guard: the running flag
Observed == nodeState.is_running

Finish(t, r) ==
    /\ ret' = [ret EXCEPT ![t] = Some(r)]
    /\ pc' = [pc EXCEPT ![t] = "done"]
    /\ Release(t)

\* a task calls an operation and queues for the lock
Call(t) ==
    /\ pc[t] = "idle"
    /\ \E c \in Calls :
        /\ c.op \in WriterOps => Len(hist) + Cardinality(PendingWriters) < MaxHist
        /\ call' = [call EXCEPT ![t] = c]
    /\ pc' = [pc EXCEPT ![t] = "waiting"]
    /\ waitq' = Append(waitq, t)
    /\ UNCHANGED <<nodeState, lockWriter, lockReaders, seen, ret, hist, configVars, cryptoVars>>

\* a lock that hands a read guard to any waiting reader, queued writers or not
AcquireRead_barging(t) ==
    /\ pc[t] = "waiting" /\ call[t].op \in ReaderOps
    /\ CanRead
    /\ lockReaders' = lockReaders \cup {t}
    /\ waitq' = SelectSeq(waitq, LAMBDA u : u # t)
    /\ pc' = [pc EXCEPT ![t] = "locked"]
    /\ seen' = [seen EXCEPT ![t] = Some(Observed)]
    /\ UNCHANGED <<nodeState, lockWriter, call, ret, hist, configVars, cryptoVars>>

\* `self.state.read().await` returns the guard
AcquireRead(t) ==
    /\ pc[t] = "waiting" /\ call[t].op \in ReaderOps
    /\ waitq # <<>> /\ Head(waitq) = t
    /\ CanRead
    /\ lockReaders' = lockReaders \cup {t}
    /\ waitq' = Tail(waitq)
    /\ pc' = [pc EXCEPT ![t] = "locked"]
    /\ seen' = [seen EXCEPT ![t] = Some(Observed)]
    /\ UNCHANGED <<nodeState, lockWriter, call, ret, hist, configVars, cryptoVars>>

\* `self.state.write().await` returns the guard
AcquireWrite(t) ==
    /\ pc[t] = "waiting" /\ call[t].op \in WriterOps
    /\ waitq # <<>> /\ Head(waitq) = t
    /\ CanWrite
    /\ lockWriter' = t
    /\ waitq' = Tail(waitq)
    /\ pc' = [pc EXCEPT ![t] = "locked"]
    /\ seen' = [seen EXCEPT ![t] = Some(Observed)]
    /\ UNCHANGED <<nodeState, lockReaders, call, ret, hist, configVars, cryptoVars>>

\* a start() that, refusing a running node, also marks it stopped
StartCheck_resetting(t) ==
    /\ pc[t] = "locked" /\ call[t].op = "start"
    /\ IF start_rejects(nodeState)
         THEN /\ Finish(t, SwarmhostError("Node", "Node already running"))
              /\ hist' = Append(hist, WriterEvent("start",
                                   SwarmhostError("Node", "Node already running"), FALSE))
              /\ nodeState' = [nodeState EXCEPT !.is_running = FALSE]
         ELSE /\ pc' = [pc EXCEPT ![t] = "update"]
              /\ UNCHANGED <<nodeState, lockWriter, lockReaders, ret, hist>>
    /\ UNCHANGED <<waitq, call, seen, configVars, cryptoVars>>

\* start(): the check of the running flag; the error return drops the guard
StartCheck(t) ==
    /\ pc[t] = "locked" /\ call[t].op = "start"
    /\ IF start_rejects(nodeState)
         THEN /\ Finish(t, SwarmhostError("Node", "Node already running"))
              /\ hist' = Append(hist, WriterEvent("start",
                                   SwarmhostError("Node", "Node already running"), FALSE))
         ELSE /\ pc' = [pc EXCEPT ![t] = "update"]
              /\ UNCHANGED <<lockWriter, lockReaders, ret, hist>>
    /\ UNCHANGED <<nodeState, waitq, call, seen, configVars, cryptoVars>>

\* start(): the flag is set, Ok(()) returned, the guard dropped
StartSet(t) ==
    /\ pc[t] = "update" /\ call[t].op = "start"
    /\ nodeState' = start_update(nodeState)
    /\ Finish(t, Ok)
    /\ hist' = Append(hist, WriterEvent("start", Ok, TRUE))
    /\ UNCHANGED <<waitq, call, seen, configVars, cryptoVars>>

\* a stop() that, like start(), refuses the state it has nothing to do in
StopCheck_rejecting(t) ==
    /\ pc[t] = "locked" /\ call[t].op = "stop"
    /\ IF stop_returns_early(nodeState)
         THEN /\ Finish(t, SwarmhostError("Node", "Node not running"))
              /\ hist' = Append(hist, WriterEvent("stop",
                                   SwarmhostError("Node", "Node not running"), FALSE))
         ELSE /\ pc' = [pc EXCEPT ![t] = "update"]
              /\ UNCHANGED <<lockWriter, lockReaders, ret, hist>>
    /\ UNCHANGED <<nodeState, waitq, call, seen, configVars, cryptoVars>>

\* stop(): the check of the running flag; the early return drops the guard
StopCheck(t) ==
    /\ pc[t] = "locked" /\ call[t].op = "stop"
    /\ IF stop_returns_early(nodeState)
         THEN /\ Finish(t, Ok)
              /\ hist' = Append(hist, WriterEvent("stop", Ok, FALSE))
         ELSE /\ pc' = [pc EXCEPT ![t] = "update"]
              /\ UNCHANGED <<lockWriter, lockReaders, ret, hist>>
    /\ UNCHANGED <<nodeState, waitq, call, seen, configVars, cryptoVars>>

\* stop(): the flag and the peer list are cleared, Ok(()) returned, the guard dropped
StopClear(t) ==
    /\ pc[t] = "update" /\ call[t].op = "stop"
    /\ nodeState' = stop_update(nodeState)
    /\ Finish(t, Ok)
    /\ hist' = Append(hist, WriterEvent("stop", Ok, TRUE))
    /\ UNCHANGED <<waitq, call, seen, configVars, cryptoVars>>

\* the body of an operation that holds a read guard
Read(t, o, r) ==
    /\ pc[t] = "locked" /\ call[t].op = o
    /\ Finish(t, r)
    /\ UNCHANGED <<nodeState, waitq, call, seen, hist, configVars, cryptoVars>>

IsRunning(t) == Read(t, "is_running", is_running(nodeState))

PeerCount(t) == Read(t, "peer_count", peer_count(nodeState))

PlayerId(t) == Read(t, "player_id", SwarmhostNode_player_id(nodeState))

JoinGame(t) == Read(t, "join_game", join_game(nodeState, call[t].game_id))

SubmitAction(t) ==
    Read(t, "submit_action",
         submit_action(nodeState, call[t].action_type, call[t].action_data))

\* the caller takes the returned value and is free to call again
Return(t) ==
    /\ pc[t] = "done"
    /\ pc' = [pc EXCEPT ![t] = "idle"]
    /\ call' = [call EXCEPT ![t] = NoCall]
    /\ ret' = [ret EXCEPT ![t] = None]
    /\ seen' = [seen EXCEPT ![t] = None]
    /\ UNCHANGED <<nodeState, lockWriter, lockReaders, waitq, hist, configVars, cryptoVars>>

TaskStep(t) ==
    \/ Call(t)
    \/ AcquireRead(t)
    \/ AcquireWrite(t)
    \/ StartCheck(t)
    \/ StartSet(t)
    \/ StopCheck(t)
    \/ StopClear(t)
    \/ IsRunning(t)
    \/ PeerCount(t)
    \/ PlayerId(t)
    \/ JoinGame(t)
    \/ SubmitAction(t)
    \/ Return(t)

Next == \E t \in Tasks : TaskStep(t)

\* no caller has called yet
NodeIdle ==
    /\ lockWriter = 0
    /\ lockReaders = {}
    /\ waitq = <<>>
    /\ pc = [t \in Tasks |-> "idle"]
    /\ call = [t \in Tasks |-> NoCall]
    /\ seen = [t \in Tasks |-> None]
    /\ ret = [t \in Tasks |-> None]
    /\ hist = <<>>

CryptoIdle ==
    /\ signature = <<>>
    /\ origin = None
    /\ verified = None
    /\ checked = None
    /\ pieces = <<>>
    /\ multi = None
    /\ single = None

\* the identities a node is constructed with: two tell one player id from another
NodeKeyPairs == {KeyPair(s) : s \in {1, 2}}

\* a node constructed from the configuration NodeConfig::new() returns
Init ==
    /\ \E kp \in NodeKeyPairs :
        /\ config = NodeConfig_new(kp)
        /\ keypair = kp
    /\ validated = None
    /\ created = SwarmhostNode_new(config)
    /\ serialized = None
    /\ nodeState = created.node.state
    /\ NodeIdle
    /\ CryptoIdle

Spec == Init /\ [][Next]_vars

\* the node of one of the identities: no step of a caller depends on which
FairInit == Init /\ keypair = KeyPair(1)

\* every task that can take a step eventually takes one
FairSpec == FairInit /\ [][Next]_vars /\ \A t \in Tasks : WF_vars(TaskStep(t))

-----------------------------------------------------------------------------
(* ConfigSpec *)

ConfigInit ==
    /\ config = NodeConfig_default
    /\ validated = None
    /\ created = None
    /\ serialized = None
    /\ nodeState = None
    /\ NodeIdle
    /\ keypair = None
    /\ CryptoIdle

ConfigSpec == ConfigInit /\ [][ConfigNext]_vars

-----------------------------------------------------------------------------
(* CryptoSpec: one holder of a KeyPair signs messages and verifies the     *)
(* signature bytes in hand, its own or bytes received from outside.        *)

\* KeyPair::generate, KeyPair::from_bytes
Generate ==
    /\ \E kp \in KeyPairs : keypair' = kp
    /\ verified' = None
    /\ checked' = None
    /\ UNCHANGED <<signature, origin, hashVars, nodeVars, configVars>>

Sign ==
    /\ \E m \in Messages :
        /\ signature' = sign(keypair, m)
        /\ origin' = Some([signer |-> keypair, message |-> m])
    /\ verified' = None
    /\ checked' = None
    /\ UNCHANGED <<keypair, hashVars, nodeVars, configVars>>

Receive ==
    /\ \E b \in ForeignBytes : signature' = b
    /\ origin' = None
    /\ verified' = None
    /\ checked' = None
    /\ UNCHANGED <<keypair, hashVars, nodeVars, configVars>>

Verify ==
    /\ \E m \in Messages :
        verified' = Some([message |-> m, result |-> verify(keypair, m, signature)])
    /\ checked' = None
    /\ UNCHANGED <<keypair, signature, origin, hashVars, nodeVars, configVars>>

\* a third party checks the signature in hand against a public key
VerifySignature ==
    /\ \E pk \in PublicKeyBytes, m \in Messages :
        checked' = Some([public_key |-> pk, message |-> m,
                         result |-> verify_signature(pk, m, signature)])
    /\ verified' = None
    /\ UNCHANGED <<keypair, signature, origin, hashVars, nodeVars, configVars>>

CryptoNext ==
    \/ Generate
    \/ Sign
    \/ Receive
    \/ Verify
    \/ VerifySignature

CryptoInit ==
    /\ keypair \in KeyPairs
    /\ CryptoIdle
    /\ config = NodeConfig_default
    /\ validated = None
    /\ created = None
    /\ serialized = None
    /\ nodeState = None
    /\ NodeIdle

CryptoSpec == CryptoInit /\ [][CryptoNext]_vars

-----------------------------------------------------------------------------
(* crypto/mod.rs: hash and hash_multiple applied to bounded inputs *)

HashMultiple ==
    /\ multi' = Some([pieces |-> pieces, digest |-> hash_multiple(pieces)])
    /\ UNCHANGED <<pieces, single, keypair, signature, origin, verified, checked,
                   nodeVars, configVars>>

\* the caller concatenates the pieces and hashes the buffer
Hash ==
    /\ single' = Some([data |-> Concat(pieces), digest |-> hash(Concat(pieces))])
    /\ UNCHANGED <<pieces, multi, keypair, signature, origin, verified, checked,
                   nodeVars, configVars>>

\* the orders one step away: the reversal, and each exchange of two neighbours
\* (every permutation is a chain of such exchanges)
Reorderings(p) ==
    LET n    == Len(p)
        rev  == [i \in 1..n |-> p[n + 1 - i]]
        swap(k) == [i \in 1..n |-> IF i = k THEN p[k + 1]
                                   ELSE IF i = k + 1 THEN p[k] ELSE p[i]]
    IN  ({rev} \cup {swap(k) : k \in 1..(n - 1)}) \ {p}

\* the caller puts the same pieces in another order
Reorder ==
    /\ \E q \in Reorderings(pieces) : pieces' = q
    /\ single' = None
    /\ UNCHANGED <<multi, keypair, signature, origin, verified, checked,
                   nodeVars, configVars>>

HashNext ==
    \/ HashMultiple
    \/ Hash
    \/ Reorder

HashInit ==
    /\ pieces \in PieceSeqs
    /\ multi = None
    /\ single = None
    /\ keypair = KeyPair(1)
    /\ signature = <<>>
    /\ origin = None
    /\ verified = None
    /\ checked = None
    /\ config = NodeConfig_default
    /\ validated = None
    /\ created = None
    /\ serialized = None
    /\ nodeState = None
    /\ NodeIdle

HashSpec == HashInit /\ [][HashNext]_vars

-----------------------------------------------------------------------------
(* Properties of Spec: the session *)

Max(S) == CHOOSE x \in S : \A y \in S : y <= x

\* the running flag a sequence of completed start()/stop() calls leaves behind
RunningAfter(h) ==
    LET changes == {k \in 1..Len(h) : h[k].changed}
    IN  IF changes = {} THEN FALSE ELSE h[Max(changes)].op = "start"

\* a stop() that found the session running completed strictly between i and j
StoppedBetween(i, j) ==
    \E k \in (i + 1)..(j - 1) : hist[k].op = "stop" /\ hist[k].changed

\* pairs of start() calls, in lock order, with no running-to-stopped stop() between
StartPairs ==
    {p \in (1..Len(hist)) \X (1..Len(hist)) :
        /\ p[1] < p[2]
        /\ hist[p[1]].op = "start" /\ hist[p[2]].op = "start"
        /\ ~StoppedBetween(p[1], p[2])}

AlreadyRunning == SwarmhostError("Node", "Node already running")
NotRunning     == SwarmhostError("Node", "Node not running")

Done(t, o) == pc[t] = "done" /\ call[t].op = o

\* C1 as stated: of any two start() calls with no running-to-stopped stop()
\* between them, exactly one returns Ok and the other an error.
C1_ExactlyOneOfTwoStarts ==
    \A p \in StartPairs : IsOk(hist[p[1]].ret) # IsOk(hist[p[2]].ret)

\* C1, amended: of any two start() calls with no running-to-stopped stop()
\* between them the later one returns the "Node already running" error, so the
\* two never both return Ok, and between two start() calls that returned Ok there
\* is a stop() that found the session running.
C1_LaterStartFails ==
    /\ \A p \in StartPairs : hist[p[2]].ret = AlreadyRunning
    /\ \A i, j \in 1..Len(hist) :
        (/\ i < j
         /\ hist[i].op = "start" /\ IsOk(hist[i].ret)
         /\ hist[j].op = "start" /\ IsOk(hist[j].ret)) => StoppedBetween(i, j)

\* two tasks' start() calls on the fresh session have both returned: one Ok,
\* the other the error
C1_Witness ==
    \E t, u \in Tasks :
        /\ Done(t, "start") /\ ret[t].value = Ok
        /\ Done(u, "start") /\ ret[u].value = AlreadyRunning
        /\ Len(hist) = 2

\* C2: join_game and submit_action return the Node error "Node not running"
\* exactly when the running flag was false when they got the read guard and Ok
\* otherwise, whatever their arguments; while they hold the guard the flag stays
\* what they found, and it is the flag the completed start()/stop() calls leave:
\* false before the first start(), true after it, false again after a stop().
C2_GuardedEntryPoints ==
    \A t \in Tasks :
        /\ (Done(t, "join_game") \/ Done(t, "submit_action")) =>
            ret[t].value = IF seen[t].value THEN Ok ELSE NotRunning
        /\ (pc[t] = "locked" /\ call[t].op \in {"join_game", "submit_action"}) =>
            /\ seen[t].value = nodeState.is_running
            /\ seen[t].value = RunningAfter(hist)

\* a join_game that succeeded while the session was running and, after the stop()
\* that followed, a submit_action that failed
C2_Witness ==
    \E t, u \in Tasks :
        /\ Done(t, "join_game") /\ ret[t].value = Ok
        /\ Done(u, "submit_action") /\ ret[u].value = NotRunning
        /\ Len(hist) = 2
        /\ hist[1].op = "start" /\ hist[2].op = "stop" /\ hist[2].changed

\* the step in which task t's call of operation o returns
Returns(t, o) == call[t].op = o /\ pc[t] \in {"locked", "update"} /\ pc'[t] = "done"

\* C3: a start() that finds the session Running returns the Node error
\* "Node already running" and leaves the running flag, the peer list and the
\* player id as they were; the session is still Running, so a stop() still stops it.
C3_FailedStartChangesNothing ==
    [][\A t \in Tasks :
        (pc[t] = "locked" /\ call[t].op = "start" /\ nodeState.is_running /\ pc'[t] # pc[t]) =>
            /\ pc'[t] = "done"
            /\ ret'[t] = Some(AlreadyRunning)
            /\ ret'[t] = Some(start(nodeState).ret)
            /\ nodeState' = nodeState
            /\ nodeState' = start(nodeState).state
            /\ ~stop_returns_early(nodeState')]_vars

C3_Witness ==
    \E t \in Tasks :
        /\ Done(t, "start") /\ ret[t].value = AlreadyRunning
        /\ nodeState.is_running

\* a stop() is among the first n completed start()/stop() calls
StopWithin(n) == \E k \in 1..n : hist[k].op = "stop"

\* the last of the first n completed calls that is a stop(), and no start()
\* returned Ok after it
StoppedAt(n) ==
    /\ StopWithin(n)
    /\ LET last == Max({k \in 1..n : hist[k].op = "stop"})
       IN  \A k \in (last + 1)..n : ~(hist[k].op = "start" /\ IsOk(hist[k].ret))

\* C4: once a stop() has returned the peer list is empty and every peer_count()
\* that returns afterwards returns 0; unless a start() returned Ok in between, the
\* flag is false and every is_running() that returns afterwards returns false.
C4_StopClearsForLaterReaders ==
    /\ [](StopWithin(Len(hist)) => nodeState.connected_peers = <<>>)
    /\ [](StoppedAt(Len(hist)) => ~nodeState.is_running)
    /\ [][\A t \in Tasks :
            /\ (Returns(t, "peer_count") /\ StopWithin(Len(hist))) => ret'[t] = Some(0)
            /\ (Returns(t, "is_running") /\ StoppedAt(Len(hist))) => ret'[t] = Some(FALSE)
         ]_vars

\* start(), a second start() that failed, the stop() of the other task, and then
\* its is_running() and its answer
C4_Witness ==
    \E t, u \in Tasks :
        /\ Len(hist) = 3
        /\ hist[1].op = "start" /\ IsOk(hist[1].ret)
        /\ hist[2].op = "start" /\ IsErr(hist[2].ret)
        /\ hist[3].op = "stop" /\ hist[3].changed
        /\ Done(u, "start") /\ ret[u].value = AlreadyRunning
        /\ Done(t, "is_running") /\ ret[t].value = FALSE

\* C5: stop() never returns an error; on a Stopped session it returns Ok and
\* changes nothing; and a second stop() changes nothing the first left, so
\* stop(); stop() leaves the state a single stop() leaves.
C5_StopIdempotent ==
    [][\A t \in Tasks :
        Returns(t, "stop") =>
            /\ ret'[t] = Some(Ok)
            /\ nodeState' = stop(nodeState).state
            /\ ~nodeState.is_running => nodeState' = nodeState
            /\ stop(nodeState').ret = Ok
            /\ stop(nodeState').state = nodeState']_vars

\* a stop() that stopped the session, and right after it a stop() that found it stopped
C5_Witness ==
    \E k \in 1..(Len(hist) - 1) :
        /\ hist[k].op = "stop" /\ hist[k].changed
        /\ hist[k + 1].op = "stop" /\ ~hist[k + 1].changed /\ hist[k + 1].ret = Ok
        /\ ~nodeState.is_running

\* C9 as stated: the session records peers handed to it, so that a running
\* session whose peer_count() is above 0 comes about.
C9_PeerRecorded == <>(nodeState.is_running /\ peer_count(nodeState) > 0)

\* what the code does instead: no operation ever adds a peer
C9_NoPeerEverRecorded == peer_count(nodeState) = 0

-----------------------------------------------------------------------------
(* Properties of ConfigSpec *)

\* the condition spelled out field by field
WellFormed(cfg) ==
    /\ cfg.keypair # None
    /\ cfg.consensus.quorum_numerator # 0
    /\ cfg.consensus.quorum_denominator # 0
    /\ cfg.consensus.quorum_numerator <= cfg.consensus.quorum_denominator
    /\ cfg.network.max_message_size > 0

\* C6: SwarmhostNode::new(config) returns Ok exactly when config.validate() does;
\* otherwise it returns the Config error carrying validate()'s message, which for
\* a configuration with no identity is "Keypair must be set", and no node comes
\* with the error.  A node it returns is Stopped, has no peers and has the
\* configuration's player id.
C6_NewFollowsValidate ==
    created # None =>
        /\ IsOk(created) <=> IsOk(validate(config))
        /\ IsErr(created) =>
            /\ created = SwarmhostError("Config", validate(config).msg)
            /\ DOMAIN created = {"tag", "variant", "msg"}
            /\ config.keypair = None => created.msg = "Keypair must be set"
        /\ IsOk(created) =>
            /\ created.node.config = config
            /\ created.node.state =
                NodeState(public_key(config.keypair.value), FALSE, <<>>)

\* new() refused a configuration with no identity
C6_Witness ==
    /\ created # None /\ IsErr(created)
    /\ config.keypair = None

\* C7: validate() returns Ok if and only if the identity is present, both quorum
\* numbers are nonzero, the numerator is at most the denominator and max_message_size
\* is above 0, whatever the bootstrap server, the port and the optimistic flag are.
C7_ValidateIffWellFormed ==
    /\ validated # None => (IsOk(validated) <=> WellFormed(config))
    /\ \A s \in Servers, p \in Ports, b \in BOOLEAN :
        validate(with_optimistic_execution(with_port(with_bootstrap(config, s), p), b))
            = validate(config)

\* validate() refused a quorum above 1 in a configuration that has an identity, a
\* message size above 0 and a bootstrap server, port and optimistic flag off
\* their defaults
C7_Witness ==
    /\ validated # None /\ IsErr(validated)
    /\ config.keypair # None /\ config.network.max_message_size > 0
    /\ config.consensus.quorum_numerator > config.consensus.quorum_denominator
    /\ config.consensus.quorum_denominator # 0
    /\ config.bootstrap_server # None /\ config.listen_port # 0
    /\ ~config.consensus.optimistic_execution

\* C8 as stated: the value of NodeConfig::default() passes validate().
C8_DefaultPassesValidate ==
    (validated # None /\ config = NodeConfig_default) => IsOk(validated)

\* C8, amended: the default configuration with an identity supplied, the value of
\* NodeConfig::new() or NodeConfig::with_keypair(k), passes validate(); the value
\* of NodeConfig::default() has quorum 2/3 and optimistic_execution = true but no
\* identity, and validate() refuses it with "Keypair must be set".
C8_DefaultWithIdentityPasses ==
    /\ NodeConfig_default.consensus.quorum_numerator = 2
    /\ NodeConfig_default.consensus.quorum_denominator = 3
    /\ NodeConfig_default.consensus.optimistic_execution
    /\ validated # None =>
        /\ config = NodeConfig_default =>
            validated = [tag |-> "Err", msg |-> "Keypair must be set"]
        /\ (\E kp \in KeyPairs : config \in {NodeConfig_new(kp), with_keypair(kp)}) =>
            IsOk(validated)

\* validate() has run on the value of NodeConfig::new()
C8_Witness ==
    /\ validated # None
    /\ \E kp \in KeyPairs : config = NodeConfig_new(kp)

-----------------------------------------------------------------------------
(* Properties of CryptoSpec *)

\* C10: verifying, with the keypair that signed m, the signature of m against a
\* message m' returns Ok when m' = m and an error when m' # m; and verify never
\* returns Ok for bytes that are no signature or do not match.
C10_SignVerifyRoundTrip ==
    verified # None =>
        LET v == verified.value
        IN  /\ (origin # None /\ origin.value.signer = keypair) =>
                /\ v.message = origin.value.message => v.result = Ok
                /\ v.message # origin.value.message => IsErr(v.result)
            /\ IsOk(v.result) =>
                /\ Signature_from_slice(signature).tag = "Ok"
                /\ VerifyingKey_verify(public_key(keypair), v.message,
                                       Signature_from_slice(signature))

\* the signer verified its signature of one message against another message
C10_Witness ==
    /\ verified # None /\ origin # None
    /\ origin.value.signer = keypair
    /\ verified.value.message # origin.value.message
    /\ verified.value.result = SwarmhostError("Crypto", "Verification failed")


InvalidPublicKey   == SwarmhostError("Crypto", "Invalid public key")
InvalidSignature   == SwarmhostError("Crypto", "Invalid signature")
VerificationFailed == SwarmhostError("Crypto", "Verification failed")

\* C11: verify_signature returns Ok for the signer's public key and the signed
\* message; for the well-formed public key of another keypair and the same
\* message and signature it returns "Verification failed"; and its three errors
\* tell the cases apart: "Invalid public key" whenever the key bytes are
\* malformed, whatever the signature bytes are, "Invalid signature" when the key
\* is well formed and the signature bytes are not, "Verification failed" when
\* both are well formed and do not match.
C11_VerifySignatureCases ==
    /\ Cardinality({InvalidPublicKey, InvalidSignature, VerificationFailed}) = 3
    /\ checked # None =>
        LET c   == checked.value
            key == VerifyingKey_from_bytes(c.public_key)
            sig == Signature_from_slice(signature)
        IN  /\ (origin # None /\ c.message = origin.value.message) =>
                /\ c.public_key = public_key(origin.value.signer) => c.result = Ok
                /\ c.public_key \in PlayerIds \ {public_key(origin.value.signer)} =>
                    c.result = VerificationFailed
            /\ c.result = InvalidPublicKey <=> key.tag = "Err"
            /\ c.result = InvalidSignature <=> (key.tag = "Ok" /\ sig.tag = "Err")
            /\ c.result = VerificationFailed <=>
                (/\ key.tag = "Ok" /\ sig.tag = "Ok"
                 /\ ~VerifyingKey_verify(key.A, c.message, sig))

\* A signed a message, and B's public key was tried on the message and signature
C11_Witness ==
    /\ checked # None /\ origin # None
    /\ checked.value.message = origin.value.message
    /\ checked.value.public_key \in PlayerIds \ {public_key(origin.value.signer)}
    /\ checked.value.result = VerificationFailed

\* malformed key bytes together with malformed signature bytes
C11_WitnessMalformedBoth ==
    /\ checked # None
    /\ VerifyingKey_from_bytes(checked.value.public_key).tag = "Err"
    /\ Signature_from_slice(signature).tag = "Err"


\* C12: for every sequence of byte pieces, the empty sequence and empty pieces
\* included, hash_multiple of the pieces is hash of their concatenation.
C12_HashMultipleIsHashOfConcat ==
    /\ multi # None =>
        multi.value.digest = hash(Concat(multi.value.pieces))
    /\ (multi # None /\ single # None /\ single.value.data = Concat(multi.value.pieces)) =>
        multi.value.digest = single.value.digest

\* both functions were applied to the same two nonempty pieces and an empty one
C12_Witness ==
    /\ multi # None /\ single # None
    /\ multi.value.pieces = pieces
    /\ single.value.data = Concat(pieces)
    /\ Len(pieces) = 3
    /\ \E i \in 1..3 : pieces[i] = <<>>
    /\ Len(Concat(pieces)) > Len(pieces[1]) + Len(pieces[3])
    /\ multi.value.digest = single.value.digest


\* C13 as stated: whenever the pieces are put in an order that is a different
\* sequence, hash_multiple of the new order differs from hash_multiple of the
\* old one.
C13_ReorderChangesDigest ==
    (multi # None /\ pieces # multi.value.pieces) =>
        hash_multiple(pieces) # multi.value.digest

\* C13: with hash collision-free on the bounded inputs, putting the pieces in
\* another order changes the digest of hash_multiple exactly when it changes
\* the concatenation of the pieces; two orders with the same concatenation
\* have the same digest.
C13_ReorderChangesDigestIffConcatChanges ==
    (multi # None /\ pieces # multi.value.pieces) =>
        (hash_multiple(pieces) # multi.value.digest
            <=> Concat(pieces) # Concat(multi.value.pieces))

\* three pieces hashed, then reversed into a different buffer
C13_Witness ==
    /\ multi # None
    /\ Len(pieces) = 3
    /\ pieces = [i \in 1..3 |-> multi.value.pieces[4 - i]]
    /\ Concat(pieces) # Concat(multi.value.pieces)
    /\ hash_multiple(pieces) # multi.value.digest

\* two nonempty pieces hashed, then swapped into the same buffer
C13_WitnessSameBuffer ==
    /\ multi # None
    /\ Len(pieces) = 2
    /\ pieces # multi.value.pieces
    /\ \A i \in 1..2 : pieces[i] # <<>>
    /\ hash_multiple(pieces) = multi.value.digest


KeypairMustBeSet == [tag |-> "Err", msg |-> "Keypair must be set"]

KeypairOptions == {Some(kp) : kp \in KeyPairs} \cup {None}

\* the configuration in hand is the one restored from the serialized form
Restored == serialized # None /\ config = deserialize(serialized.value.form)

\* C14: the serialized form of a configuration has no keypair and is the same
\* for configurations that differ only in their keypair; the configuration
\* restored from it has no identity, so validate() refuses it with "Keypair
\* must be set" and SwarmhostNode::new refuses it, until a keypair is put
\* back, after which it passes exactly when the configuration that was
\* serialized passes with that keypair.
C14_SerializedFormHasNoIdentity ==
    serialized # None =>
        LET form     == serialized.value.form
            source   == serialized.value.source
            restored == deserialize(form)
        IN  /\ "keypair" \notin DOMAIN form
            /\ \A k \in KeypairOptions : serialize([source EXCEPT !.keypair = k]) = form
            /\ restored = [source EXCEPT !.keypair = None]
            /\ validate(restored) = KeypairMustBeSet
            /\ IsErr(SwarmhostNode_new(restored))
            /\ \A kp \in KeyPairs :
                validate([restored EXCEPT !.keypair = Some(kp)])
                    = validate([source EXCEPT !.keypair = Some(kp)])
            /\ Restored =>
                /\ validated # None =>
                    validated = KeypairMustBeSet
                /\ created # None => IsErr(created)

\* a configuration with an identity and a port of its own was serialized,
\* restored, and refused by SwarmhostNode::new
C14_Witness ==
    /\ Restored
    /\ serialized.value.source.keypair # None
    /\ serialized.value.source.listen_port # 0
    /\ validate(serialized.value.source) = Ok
    /\ created # None /\ IsErr(created)

\* the restored configuration was given a keypair again and accepted
C14_WitnessResupplied ==
    /\ serialized # None
    /\ serialized.value.source.keypair # None
    /\ config # serialized.value.source
    /\ config.keypair # None
    /\ created # None /\ IsOk(created)


\* the task holds a guard of the lock
HoldsGuard(t) == lockWriter = t \/ t \in lockReaders

\* C15: under a fair lock and fair scheduling every operation that waits for
\* the lock gets it and returns, a start() or stop() included while other
\* tasks keep calling readers; an operation holds a guard exactly from getting
\* it to returning, and only after leaving the queue; and is_running(),
\* peer_count() and player_id() return a plain value, never an error.
C15_EveryOperationReturns ==
    /\ \A t \in Tasks : []<>(pc[t] \in {"idle", "done"})
    /\ [](\A t \in Tasks :
            /\ HoldsGuard(t) <=> pc[t] \in {"locked", "update"}
            /\ HoldsGuard(t) => \A i \in 1..Len(waitq) : waitq[i] # t
            /\ pc[t] = "waiting" <=> \E i \in 1..Len(waitq) : waitq[i] = t
            /\ Done(t, "is_running") => ret[t].value \in BOOLEAN
            /\ Done(t, "peer_count") => ret[t].value \in Nat
            /\ Done(t, "player_id") => ret[t].value \in PlayerIds)

\* a start() or stop() waits for the lock while a reader holds a guard
C15_Witness ==
    \E t, u \in Tasks :
        /\ pc[t] = "waiting" /\ call[t].op \in WriterOps
        /\ pc[u] = "locked" /\ u \in lockReaders


\* C16: player_id() returns the same value in every reachable state: the
\* public key of the keypair in the configuration the node was built from,
\* whatever start() and stop() calls have completed.
C16_PlayerIdNeverChanges ==
    /\ nodeState.player_id = public_key(config.keypair.value)
    /\ SwarmhostNode_player_id(nodeState) = player_id(created.node.config).value
    /\ \A t \in Tasks :
        Done(t, "player_id") => ret[t] = Some(public_key(config.keypair.value))

\* player_id() returned after a start() and a stop() had changed the session
C16_Witness ==
    \E t \in Tasks :
        /\ Done(t, "player_id")
        /\ \E i, j \in 1..Len(hist) :
            /\ i < j
            /\ hist[i].op = "start" /\ hist[i].changed
            /\ hist[j].op = "stop" /\ hist[j].changed


\* the task is between getting its guard and returning
InCriticalSection(t) == pc[t] \in {"locked", "update"}

\* C17: while a start() or stop() is in its critical section no other
\* operation, reader or writer, is in its own, so the running flag a writer
\* found on getting its guard is still the flag when it updates; readers may
\* be in their critical sections together.
C17_WriterExcludesAll ==
    /\ [](\A t \in Tasks :
            (InCriticalSection(t) /\ call[t].op \in WriterOps) =>
                /\ \A u \in Tasks \ {t} : ~InCriticalSection(u)
                /\ lockWriter = t /\ lockReaders = {}
                /\ seen[t] = Some(nodeState.is_running))
    /\ [][\A t \in Tasks :
            (InCriticalSection(t) /\ call[t].op \in WriterOps) =>
                /\ nodeState' # nodeState => pc'[t] = "done"
                /\ \A u \in Tasks \ {t} :
                    /\ pc'[u] \notin {"locked", "update"}
                    /\ ret'[u] \in {ret[u], None}]_vars

\* two readers hold their guards at the same time
C17_Witness ==
    \E t, u \in Tasks :
        /\ t # u
        /\ InCriticalSection(t) /\ call[t].op \in ReaderOps
        /\ InCriticalSection(u) /\ call[u].op \in ReaderOps
        /\ {t, u} \subseteq lockReaders

\* a start() is between its check and its update while another call waits
C17_WitnessWriterInside ==
    \E t, u \in Tasks :
        /\ pc[t] = "update" /\ call[t].op = "start"
        /\ pc[u] = "waiting"


\* C18: a freshly constructed session is Stopped with an empty peer list, and
\* in every reachable state a session whose running flag is false has an
\* empty peer list.
C18_StoppedHasNoPeers ==
    /\ IsOk(created)
    /\ ~created.node.state.is_running
    /\ created.node.state.connected_peers = <<>>
    /\ (\A i \in 1..Len(hist) : ~hist[i].changed) =>
        nodeState = created.node.state
    /\ ~nodeState.is_running => nodeState.connected_peers = <<>>

\* the session was started and stopped again
C18_Witness ==
    /\ ~nodeState.is_running
    /\ nodeState.connected_peers = <<>>
    /\ \E i \in 1..Len(hist) : hist[i].op = "stop" /\ hist[i].changed

\* C19: is_running(), peer_count(), player_id(), join_game() and
\* submit_action() leave the running flag, the peer list and the player id as
\* they found them; the NodeState changes only in the step in which a start()
\* returns Ok or a stop() that found the session Running returns.
C19_OnlyStartAndStopChangeState ==
    /\ [][\A t \in Tasks : \A o \in ReaderOps :
            Returns(t, o) => nodeState' = nodeState]_vars
    /\ [][nodeState' # nodeState =>
            \E t \in Tasks :
                /\ pc[t] = "update" /\ pc'[t] = "done"
                /\ ret'[t] = Some(Ok)
                /\ \/ /\ call[t].op = "start"
                      /\ ~nodeState.is_running /\ nodeState'.is_running
                   \/ /\ call[t].op = "stop"
                      /\ nodeState.is_running /\ ~nodeState'.is_running
                /\ nodeState'.player_id = nodeState.player_id]_vars
    /\ [][\A t \in Tasks :
            (pc[t] = "locked" /\ pc'[t] = "done" /\ call[t].op \in WriterOps) =>
                nodeState' = nodeState]_vars

\* a join_game() and a refused start() have returned on a running session
C19_Witness ==
    /\ nodeState.is_running
    /\ \E t, u \in Tasks :
        /\ Done(t, "join_game")
        /\ Done(u, "start") /\ IsErr(ret[u].value)

====
